---- MODULE Spec2Model ----
(***************************************************************************)
(* ReactOS ntoskrnl/ob/dirobj.c: NtQueryDirectoryObject (Spec, FairSpec),  *)
(* NtOpenDirectoryObject and NtCreateDirectoryObject (ObSpec).             *)
(*                                                                         *)
(* One directory object (member list, spin lock, pointer count), one       *)
(* execution context that calls NtQueryDirectoryObject over and over, and  *)
(* one execution context that inserts and removes members under the        *)
(* directory's lock.  The query is modelled statement group by statement   *)
(* group, the scan loop one iteration per step.                            *)
(***************************************************************************)
EXTENDS Integers, Sequences, FiniteSets, TLC

(* ------------------------------ bounds -------------------------------- *)

\* objects that may ever be members of the directory: 1..MaxObjects
MaxObjects == 2
\* largest value the caller ever stores in *Context by itself
MaxContext == 3
\* cap of the directory's pointer count (a leaked reference is never returned)
MaxPointerCount == 2
\* names a directory may be created or opened under: 1..MaxNames (0: no name)
MaxNames == 2
\* directory objects NtCreateDirectoryObject ever creates: 1..MaxCreated
MaxCreated == 2
\* slots of the caller's handle table: 1..MaxHandles
MaxHandles == 2

(* ---------------------------- constants ------------------------------- *)

\* sizeof(OBJECT_DIRECTORY_INFORMATION): two UNICODE_STRINGs, 32 bit build
R == 16
\* sizeof(WCHAR)
WCHAR == 2
\* pointer count of the directory while no call is in flight
BaseRefs == 1

STATUS_SUCCESS == 0
STATUS_MORE_ENTRIES == 261
STATUS_NO_MORE_ENTRIES == -2147483622
STATUS_BUFFER_TOO_SMALL == -1073741789
STATUS_INSUFFICIENT_RESOURCES == -1073741670
STATUS_ACCESS_VIOLATION == -1073741819
STATUS_INVALID_HANDLE == -1073741816
STATUS_OBJECT_NAME_NOT_FOUND == -1073741772
STATUS_OBJECT_NAME_COLLISION == -1073741771

\* NTSTATUS is a signed 32 bit value; success and informational codes are >= 0
NT_SUCCESS(s) == s >= 0

(* ------------------------- the member objects ------------------------- *)

Objects == 1..MaxObjects

\* HEADER_TO_OBJECT_NAME(EntryHeader)->Name.Length, in bytes (0: anonymous)
NameLength(o) == IF o % 2 = 0 THEN 0 ELSE WCHAR * (o + 2)
\* EntryHeader->Type->Name.Length, in bytes (always present)
TypeLength(o) == WCHAR * (o + 2)

\* the size of the buffer space one entry needs
EntrySize(o) ==
    R + (IF NameLength(o) # 0 THEN NameLength(o) + WCHAR ELSE 0)
      + TypeLength(o) + WCHAR

(* ------------------------------ inputs -------------------------------- *)

RECURSIVE SetSum(_)
SetSum(S) ==
    IF S = {} THEN 0
    ELSE LET o == CHOOSE x \in S : TRUE IN EntrySize(o) + SetSum(S \ {o})

\* BufferLength values tried: 0, and for every group of members the exact
\* size that holds the group and one byte less
BufferLengths ==
    {0} \cup { R + SetSum(S) - d : S \in SUBSET Objects, d \in {0, 1} }

(* ------------------------------- state -------------------------------- *)

VARIABLES
    list,            \* Directory->head: the members, in list order
    lock,            \* Directory->Lock: "free", "query" or "mutator"
    PointerCount,    \* references held on the directory object
    pool,            \* non paged pool blocks allocated and not yet freed
    pc,              \* position of the querying context
    args,            \* arguments of the call in flight
    loc,             \* locals of the call in flight
    Context,         \* caller memory: *Context
    ReturnLength,    \* caller memory: *ReturnLength
    Buffer,          \* caller memory: the records copied into Buffer
    mpc,             \* the mutating context: "waiting" for the lock, "locked"
    ctx0,            \* history: *Context when the call was entered
    snap,            \* history: the list when the call took the lock
    written,         \* history: bytes this call copied into Buffer
    scanOK,          \* history: a well formed scan is in progress
    scanLog,         \* history: records delivered so far by that scan
    cur,             \* history: summary of the call in flight
    prev,            \* history: summary of the call before it
    path,            \* history: what the call in flight has done so far
    scanStat,        \* history: the calls of the scan in progress
    ob,              \* the object manager: namespace, objects, handles
    lc               \* the context that opens and creates directories

queryVars == <<list, lock, PointerCount, pool, pc, args, loc, Context,
               ReturnLength, Buffer, mpc, ctx0, snap, written, scanOK,
               scanLog, cur, prev, path, scanStat>>

obVars == <<ob, lc>>

vars == <<list, lock, PointerCount, pool, pc, args, loc, Context,
          ReturnLength, Buffer, mpc, ctx0, snap, written, scanOK, scanLog,
          cur, prev, path, scanStat, ob, lc>>

NullArgs ==
    [BufferLength |-> 0, ReturnSingleEntry |-> FALSE, RestartScan |-> FALSE,
     HasReturnLength |-> FALSE]

\* the locals as declared and initialised at lines 145-148 and 200-203
InitLoc ==
    [SkipEntries |-> 0, NextEntry |-> 0, CopyBytes |-> 0,
     Status |-> STATUS_SUCCESS, RequiredSize |-> R, nDirectories |-> 0,
     ListEntry |-> 1, DirInfo |-> <<>>]

NullSummary == [full |-> FALSE, small |-> FALSE, start |-> 0, L |-> 0]

\* a call that has done nothing yet; refs0 is the pointer count at its entry,
\* high the end of the highest byte written into the scratch buffer and
\* desc the string descriptors the compaction has rewritten
NullPath ==
    [fault |-> "none", referenced |-> FALSE, nomem |-> FALSE,
     allocated |-> FALSE, freed |-> FALSE, acquired |-> 0, released |-> 0,
     refs0 |-> 0, high |-> 0, desc |-> <<>>]

\* no scan in progress
NullScan == [calls |-> 0, allFit |-> FALSE, noFit |-> {}, ended |-> FALSE]

Names == 1..MaxNames
Created == 1..MaxCreated
Handles == 1..MaxHandles

\* a directory object that ObCreateObject has not made yet
NullObject ==
    [state |-> "unused", refs |-> 0, permanent |-> FALSE, failed |-> FALSE]

\* the object manager with an empty namespace, no object and no handle:
\* ns maps a name to the object linked under it, handles a handle to the
\* object it is open on (0: none)
NullOb ==
    [ns |-> [n \in Names |-> 0],
     objs |-> [d \in Created |-> NullObject],
     handles |-> [h \in Handles |-> 0]]

\* the opening and creating context between two calls: the locals of
\* lines 43-45 and 418-421, the caller's *DirectoryHandle (wrote: has it
\* been stored to), the status the object manager returned and the calls
\* made on the created object, in order
NullLc ==
    [pc |-> "idle", op |-> "none", name |-> 0, Status |-> STATUS_SUCCESS,
     Directory |-> 0, hDirectory |-> 0, DirectoryHandle |-> 0,
     wrote |-> FALSE, called |-> FALSE, obStatus |-> STATUS_SUCCESS,
     events |-> <<>>, handles0 |-> [h \in Handles |-> 0]]

Init ==
    /\ list = <<>>
    /\ lock = "free"
    /\ PointerCount = BaseRefs
    /\ pool = 0
    /\ pc = "idle"
    /\ args = NullArgs
    /\ loc = InitLoc
    /\ Context = 0
    /\ ReturnLength = 0
    /\ Buffer = <<>>
    /\ mpc = "waiting"
    /\ ctx0 = 0
    /\ snap = <<>>
    /\ written = 0
    /\ scanOK = FALSE
    /\ scanLog = <<>>
    /\ cur = NullSummary
    /\ prev = NullSummary
    /\ path = NullPath
    /\ scanStat = NullScan
    /\ ob = NullOb
    /\ lc = NullLc

(* ------------------- expressions of the query code -------------------- *)

\* a scan that always starts at the first member
StartSkip_Ignored(restart, context) == 0

\* lines 160-163 and 181-184: where the scan starts
StartSkip(restart, context) == IF restart THEN 0 ELSE context

\* an entry that fills the buffer exactly is turned away
Fits_Strict(required, size, length) == required + size < length

\* line 233: does the entry fit behind what was collected so far
Fits(required, size, length) == required + size <= length

\* the scan goes on behind the first record
StopAfterStage_Never(single) == FALSE

\* lines 253-258: in single entry mode the scan stops behind the first record
StopAfterStage(single) == single

\* the size of the entry alone, without the terminator record
TooSmallRequired_EntryOnly(required, size) == size

\* lines 263-269: the size reported when the single entry does not fit
TooSmallRequired(required, size) == required + size

\* the entry that did not fit is counted as consumed
UnconsumeEntry_Kept(next) == next

\* line 274: the entry that did not fit stays the resume point
UnconsumeEntry(next) == next - 1

\* the test of the mode is inverted
MoreEntries_Inverted(single, listEntry, length) ==
    single /\ listEntry <= length

\* line 287: entries remain behind the scan and the caller asked for many
MoreEntries(single, listEntry, length) == ~single /\ listEntry <= length

\* the results are written back whatever the status
WritesBack_Always(status, single) == TRUE

\* line 360: are Buffer, *Context and *ReturnLength written at all
WritesBack(status, single) == NT_SUCCESS(status) \/ single

Max(a, b) == IF a >= b THEN a ELSE b

\* the terminator of lines 332-333 and 349-350 is left out
StringBytes_NoTerminator(length) == length

\* lines 328-336 and 345-353: one string and its terminator in the heap
StringBytes(length) == (length \div WCHAR + 1) * WCHAR

\* lines 308-354: the bytes the compaction lays out, record by record
RECURSIVE HeapBytes(_)
HeapBytes(dirInfo) ==
    IF dirInfo = <<>> THEN 0
    ELSE LET o == Head(dirInfo) IN
         (IF NameLength(o) > 0 THEN StringBytes(NameLength(o)) ELSE 0)
         + StringBytes(TypeLength(o)) + HeapBytes(Tail(dirInfo))

CompactBytes(dirInfo) == (Len(dirInfo) + 1) * R + HeapBytes(dirInfo)

\* lines 238-246 and 259: the end of the record staged behind n records
StagedEnd(n) == (n + 1) * R

\* lines 296-301: strbuf and deststrbuf start behind n records and the
\* terminator record
HeapStart(n) == (n + 1) * R

\* lines 314-354: the string descriptors as the compaction rewrites them;
\* Buffer fields are byte offsets from the start of the output buffer (the
\* strings lie at the same offsets in the scratch buffer), -1 is NULL
RECURSIVE Descriptors(_, _)
Descriptors(dirInfo, strbuf) ==
    IF dirInfo = <<>> THEN <<>>
    ELSE LET o == Head(dirInfo)
             named == NameLength(o) > 0
             typebuf == IF named THEN strbuf + StringBytes(NameLength(o))
                        ELSE strbuf
         IN  <<[NameBuffer |-> IF named THEN strbuf ELSE -1,
                NameLength |-> NameLength(o),
                TypeBuffer |-> typebuf,
                TypeLength |-> TypeLength(o)]>>
             \o Descriptors(Tail(dirInfo),
                            typebuf + StringBytes(TypeLength(o)))

\* the end of the last byte the compaction writes into the scratch buffer:
\* the terminator record, then every string and its terminator
CompactEnd(dirInfo) ==
    LET d == Descriptors(dirInfo, HeapStart(Len(dirInfo)))
        last == d[Len(d)]
    IN  Max(HeapStart(Len(dirInfo)),
            last.TypeBuffer + StringBytes(last.TypeLength))

(* --------------------------- history helpers --------------------------- *)

Range(s) == { s[i] : i \in 1..Len(s) }

RECURSIVE SeqSum(_)
SeqSum(s) == IF s = <<>> THEN 0 ELSE EntrySize(Head(s)) + SeqSum(Tail(s))

\* the index the scan of the call in flight starts from
Start == IF args.RestartScan THEN 0 ELSE ctx0

Failed(status) ==
    status \in {STATUS_ACCESS_VIOLATION, STATUS_INVALID_HANDLE,
                STATUS_INSUFFICIENT_RESOURCES}

EndScan == scanOK' = FALSE /\ scanLog' = <<>>

\* the members of the list, by index, that a buffer of this length never holds
NoFit(length) ==
    { i \in 1..Len(list) : length < R + EntrySize(list[i]) }

\* the statistics of a scan behind the entry of one more call
ScanEntered(restart, length) ==
    IF restart
    THEN [calls |-> 0, allFit |-> NoFit(length) = {},
          noFit |-> NoFit(length), ended |-> FALSE]
    ELSE [scanStat EXCEPT !.allFit = @ /\ NoFit(length) = {},
                          !.noFit = @ \cap NoFit(length),
                          !.calls = IF scanStat.allFit /\ NoFit(length) = {}
                                    THEN @ ELSE 0]

\* the statistics of a scan behind one more call that returned status
ScanCounted(status) ==
    [scanStat EXCEPT
       !.calls = IF scanStat.allFit /\ @ <= MaxObjects + 1
                 THEN @ + 1 ELSE @,
       !.ended = @ \/ status = STATUS_NO_MORE_ENTRIES]

(* ---------------------- NtQueryDirectoryObject ------------------------- *)

\* the return of lines 175-179 is missing: a faulting probe goes on
Probe_NoReturn ==
    /\ pc = "idle"
    /\ \E b \in BufferLengths, single \in BOOLEAN, restart \in BOOLEAN,
          hasRet \in BOOLEAN, fault \in BOOLEAN :
         /\ args' = [BufferLength |-> b, ReturnSingleEntry |-> single,
                     RestartScan |-> restart, HasReturnLength |-> hasRet]
         /\ IF fault
            THEN /\ loc' = [InitLoc EXCEPT !.Status = STATUS_ACCESS_VIOLATION]
                 /\ pc' = "reference"
                 /\ path' = [NullPath EXCEPT !.fault = "probe",
                                             !.refs0 = PointerCount]
                 /\ EndScan
            ELSE /\ loc' = [InitLoc EXCEPT
                              !.SkipEntries = StartSkip(restart, Context)]
                 /\ pc' = "reference"
                 /\ path' = [NullPath EXCEPT !.refs0 = PointerCount]
                 /\ scanOK' = (restart \/ scanOK)
                 /\ scanLog' = IF restart THEN <<>> ELSE scanLog
    /\ ctx0' = Context
    /\ UNCHANGED <<list, lock, PointerCount, pool, Context, ReturnLength,
                   Buffer, mpc, snap, written, cur, prev>>
    /\ scanStat' = IF scanOK'
                   THEN ScanEntered(args'.RestartScan, args'.BufferLength)
                   ELSE NullScan
    /\ UNCHANGED obVars

\* lines 151-184: probe the caller's pointers and read *Context
Probe ==
    /\ pc = "idle"
    /\ \E b \in BufferLengths, single \in BOOLEAN, restart \in BOOLEAN,
          hasRet \in BOOLEAN, fault \in BOOLEAN :
         /\ args' = [BufferLength |-> b, ReturnSingleEntry |-> single,
                     RestartScan |-> restart, HasReturnLength |-> hasRet]
         /\ IF fault
            THEN /\ loc' = [InitLoc EXCEPT !.Status = STATUS_ACCESS_VIOLATION]
                 /\ pc' = "return"
                 /\ path' = [NullPath EXCEPT !.fault = "probe",
                                             !.refs0 = PointerCount]
                 /\ EndScan
            ELSE /\ loc' = [InitLoc EXCEPT
                              !.SkipEntries = StartSkip(restart, Context)]
                 /\ pc' = "reference"
                 /\ path' = [NullPath EXCEPT !.refs0 = PointerCount]
                 /\ scanOK' = (restart \/ scanOK)
                 /\ scanLog' = IF restart THEN <<>> ELSE scanLog
    /\ ctx0' = Context
    /\ UNCHANGED <<list, lock, PointerCount, pool, Context, ReturnLength,
                   Buffer, mpc, snap, written, cur, prev>>
    /\ scanStat' = IF scanOK'
                   THEN ScanEntered(args'.RestartScan, args'.BufferLength)
                   ELSE NullScan
    /\ UNCHANGED obVars

\* lines 186-192: resolve the handle, taking one reference
ObReferenceObjectByHandle ==
    /\ pc = "reference"
    /\ \/ /\ PointerCount < MaxPointerCount
          /\ PointerCount' = PointerCount + 1
          /\ pc' = "alloc"
          /\ UNCHANGED <<loc, scanOK, scanLog>>
       \/ /\ loc' = [loc EXCEPT !.Status = STATUS_INVALID_HANDLE]
          /\ pc' = "return"
          /\ EndScan
          /\ UNCHANGED PointerCount
    /\ UNCHANGED <<list, lock, pool, args, Context, ReturnLength, Buffer,
                   mpc, ctx0, snap, written, cur, prev>>
    /\ path' = [path EXCEPT !.referenced = (pc' = "alloc")]
    /\ scanStat' = IF scanOK' THEN scanStat ELSE NullScan
    /\ UNCHANGED obVars

\* the test of line 195 is missing: the call goes on without a buffer
ExAllocatePool_Unchecked ==
    /\ pc = "alloc"
    /\ \/ /\ pool' = pool + 1
          /\ pc' = "acquire"
          /\ path' = [path EXCEPT !.allocated = TRUE]
          /\ UNCHANGED <<loc, scanOK, scanLog>>
       \/ /\ loc' = [loc EXCEPT !.Status = STATUS_INSUFFICIENT_RESOURCES]
          /\ pc' = "acquire"
          /\ path' = [path EXCEPT !.nomem = TRUE]
          /\ EndScan
          /\ UNCHANGED pool
    /\ UNCHANGED <<list, lock, PointerCount, args, Context, ReturnLength,
                   Buffer, mpc, ctx0, snap, written, cur, prev>>
    /\ scanStat' = IF scanOK' THEN scanStat ELSE NullScan
    /\ UNCHANGED obVars

\* lines 194-195 and 385-388: the scratch buffer
ExAllocatePool ==
    /\ pc = "alloc"
    /\ \/ /\ pool' = pool + 1
          /\ pc' = "acquire"
          /\ path' = [path EXCEPT !.allocated = TRUE]
          /\ UNCHANGED <<loc, scanOK, scanLog>>
       \/ /\ loc' = [loc EXCEPT !.Status = STATUS_INSUFFICIENT_RESOURCES]
          /\ pc' = "return"
          /\ path' = [path EXCEPT !.nomem = TRUE]
          /\ EndScan
          /\ UNCHANGED pool
    /\ UNCHANGED <<list, lock, PointerCount, args, Context, ReturnLength,
                   Buffer, mpc, ctx0, snap, written, cur, prev>>
    /\ scanStat' = IF scanOK' THEN scanStat ELSE NullScan
    /\ UNCHANGED obVars

\* the scan starts without the lock
KeAcquireSpinLock_NoLock ==
    /\ pc = "acquire"
    /\ lock = "free"
    /\ loc' = [loc EXCEPT !.Status = STATUS_NO_MORE_ENTRIES, !.ListEntry = 1]
    /\ snap' = list
    /\ pc' = "scan"
    /\ UNCHANGED <<list, lock, PointerCount, pool, args, Context,
                   ReturnLength, Buffer, mpc, ctx0, written, scanOK, scanLog,
                   cur, prev>>
    /\ UNCHANGED <<path, scanStat>>
    /\ UNCHANGED obVars

\* lines 205-209: take the lock and point ListEntry at the first member
KeAcquireSpinLock ==
    /\ pc = "acquire"
    /\ lock = "free"
    /\ lock' = "query"
    /\ loc' = [loc EXCEPT !.Status = STATUS_NO_MORE_ENTRIES, !.ListEntry = 1]
    /\ snap' = list
    /\ pc' = "scan"
    /\ UNCHANGED <<list, PointerCount, pool, args, Context, ReturnLength,
                   Buffer, mpc, ctx0, written, scanOK, scanLog, cur, prev>>
    /\ path' = [path EXCEPT !.acquired = @ + 1]
    /\ UNCHANGED scanStat
    /\ UNCHANGED obVars

\* lines 213-284: the body of the loop for the member ListEntry points at
ScanBody(o) ==
    LET next == loc.NextEntry + 1
        size == EntrySize(o)
    IN  IF loc.SkipEntries = 0
        THEN IF Fits(loc.RequiredSize, size, args.BufferLength)
             THEN /\ loc' = [loc EXCEPT
                               !.NextEntry = next,
                               !.DirInfo = Append(@, o),
                               !.nDirectories = @ + 1,
                               !.RequiredSize = @ + size,
                               !.Status = STATUS_SUCCESS,
                               !.ListEntry =
                                   IF StopAfterStage(args.ReturnSingleEntry)
                                   THEN @ ELSE @ + 1]
                  /\ pc' = IF StopAfterStage(args.ReturnSingleEntry)
                           THEN "compact" ELSE "scan"
             ELSE /\ loc' = [loc EXCEPT
                               !.NextEntry = UnconsumeEntry(next),
                               !.RequiredSize =
                                   IF args.ReturnSingleEntry
                                   THEN TooSmallRequired(@, size) ELSE @,
                               !.Status =
                                   IF args.ReturnSingleEntry
                                   THEN STATUS_BUFFER_TOO_SMALL ELSE @]
                  /\ pc' = "compact"
        ELSE /\ loc' = [loc EXCEPT !.NextEntry = next,
                                   !.SkipEntries = @ - 1,
                                   !.ListEntry = @ + 1]
             /\ pc' = "scan"

\* lines 209-285: one iteration of the scan loop
ScanEntry ==
    /\ pc = "scan"
    /\ loc.ListEntry <= Len(list)
    /\ ScanBody(list[loc.ListEntry])
    /\ UNCHANGED <<list, lock, PointerCount, pool, args, Context,
                   ReturnLength, Buffer, mpc, ctx0, snap, written, scanOK,
                   scanLog, cur, prev>>
    /\ path' = [path EXCEPT
                   !.high = IF Len(loc'.DirInfo) > Len(loc.DirInfo)
                            THEN Max(@, StagedEnd(loc.nDirectories)) ELSE @]
    /\ UNCHANGED scanStat
    /\ UNCHANGED obVars

\* line 210: ListEntry is back at the list head
ScanDone ==
    /\ pc = "scan"
    /\ loc.ListEntry > Len(list)
    /\ pc' = "compact"
    /\ UNCHANGED <<list, lock, PointerCount, pool, args, loc, Context,
                   ReturnLength, Buffer, mpc, ctx0, snap, written, scanOK,
                   scanLog, cur, prev>>
    /\ UNCHANGED <<path, scanStat>>
    /\ UNCHANGED obVars

\* lines 287-355: the terminal status and the compaction of the staging
Compact ==
    /\ pc = "compact"
    /\ LET status == IF MoreEntries(args.ReturnSingleEntry, loc.ListEntry,
                                    Len(list))
                     THEN STATUS_MORE_ENTRIES ELSE loc.Status
       IN  loc' = [loc EXCEPT
                     !.Status = status,
                     !.CopyBytes =
                         IF NT_SUCCESS(status) /\ loc.nDirectories > 0
                         THEN CompactBytes(loc.DirInfo) ELSE @,
                     !.nDirectories =
                         IF NT_SUCCESS(status) /\ loc.nDirectories > 0
                         THEN 0 ELSE @]
    /\ pc' = "release"
    /\ UNCHANGED <<list, lock, PointerCount, pool, args, Context,
                   ReturnLength, Buffer, mpc, ctx0, snap, written, scanOK,
                   scanLog, cur, prev>>
    /\ path' = IF NT_SUCCESS(loc'.Status) /\ loc.nDirectories > 0
               THEN [path EXCEPT
                       !.high = Max(@, CompactEnd(loc.DirInfo)),
                       !.desc = Descriptors(loc.DirInfo,
                                            HeapStart(loc.nDirectories))]
               ELSE path
    /\ UNCHANGED scanStat
    /\ UNCHANGED obVars

\* the lock is kept across the delivery
KeReleaseSpinLock_Late ==
    /\ pc = "release"
    /\ pc' = "deref"
    /\ UNCHANGED <<list, lock, PointerCount, pool, args, loc, Context,
                   ReturnLength, Buffer, mpc, ctx0, snap, written, scanOK,
                   scanLog, cur, prev>>
    /\ UNCHANGED <<path, scanStat>>
    /\ UNCHANGED obVars

\* line 357
KeReleaseSpinLock ==
    /\ pc = "release"
    /\ lock' = "free"
    /\ pc' = "deref"
    /\ UNCHANGED <<list, PointerCount, pool, args, loc, Context,
                   ReturnLength, Buffer, mpc, ctx0, snap, written, scanOK,
                   scanLog, cur, prev>>
    /\ path' = [path EXCEPT !.released = @ + 1]
    /\ UNCHANGED scanStat
    /\ UNCHANGED obVars

\* line 358
ObDereferenceObject ==
    /\ pc = "deref"
    /\ PointerCount' = PointerCount - 1
    /\ pc' = "deliver"
    /\ UNCHANGED <<list, lock, pool, args, loc, Context, ReturnLength,
                   Buffer, mpc, ctx0, snap, written, scanOK, scanLog, cur,
                   prev>>
    /\ UNCHANGED <<path, scanStat>>
    /\ UNCHANGED obVars

\* the summary of a call whose results reached the caller
Summary ==
    [full  |-> /\ args.RestartScan /\ ~args.ReturnSingleEntry
               /\ args.BufferLength >= R + SeqSum(snap)
               /\ list = snap,
     small |-> /\ args.ReturnSingleEntry /\ args.HasReturnLength
               /\ loc.Status = STATUS_BUFFER_TOO_SMALL
               /\ list = snap,
     start |-> IF /\ args.ReturnSingleEntry /\ args.HasReturnLength
                  /\ loc.Status = STATUS_BUFFER_TOO_SMALL /\ list = snap
               THEN Start ELSE 0,
     L     |-> IF /\ args.ReturnSingleEntry /\ args.HasReturnLength
                  /\ loc.Status = STATUS_BUFFER_TOO_SMALL /\ list = snap
               THEN loc.RequiredSize ELSE 0]

\* lines 360-381: copy the staging out and write *Context and *ReturnLength;
\* any of the three touches of caller memory may fault
Deliver ==
    /\ pc = "deliver"
    /\ IF WritesBack(loc.Status, args.ReturnSingleEntry)
       THEN \E fault \in {"none", "Buffer", "Context", "ReturnLength"} :
              /\ fault = "Buffer" => loc.CopyBytes # 0
              /\ fault = "ReturnLength" => args.HasReturnLength
              /\ IF fault # "Buffer" /\ loc.CopyBytes # 0
                 THEN Buffer' = loc.DirInfo /\ written' = loc.CopyBytes
                 ELSE UNCHANGED <<Buffer, written>>
              /\ Context' = IF fault \in {"none", "ReturnLength"}
                            THEN loc.NextEntry ELSE Context
              /\ ReturnLength' = IF fault = "none" /\ args.HasReturnLength
                                 THEN loc.RequiredSize ELSE ReturnLength
              /\ IF fault = "none"
                 THEN /\ UNCHANGED loc
                      /\ cur' = Summary
                      /\ scanOK' = scanOK
                      /\ scanLog' = IF scanOK /\ loc.CopyBytes # 0
                                    THEN scanLog \o loc.DirInfo ELSE scanLog
                 ELSE /\ loc' = [loc EXCEPT
                                   !.Status = STATUS_ACCESS_VIOLATION]
                      /\ UNCHANGED cur
                      /\ EndScan
       ELSE /\ cur' = Summary
            /\ UNCHANGED <<Buffer, written, Context, ReturnLength, loc,
                           scanOK, scanLog>>
    /\ pc' = "free"
    /\ UNCHANGED <<list, lock, PointerCount, pool, args, mpc, ctx0, snap,
                   prev>>
    /\ path' = [path EXCEPT
                   !.fault = IF loc'.Status = STATUS_ACCESS_VIOLATION
                             THEN "deliver" ELSE @]
    /\ scanStat' = IF scanOK' THEN ScanCounted(loc'.Status) ELSE NullScan
    /\ UNCHANGED obVars

\* line 383
ExFreePool ==
    /\ pc = "free"
    /\ pool' = pool - 1
    /\ pc' = "return"
    /\ UNCHANGED <<list, lock, PointerCount, args, loc, Context,
                   ReturnLength, Buffer, mpc, ctx0, snap, written, scanOK,
                   scanLog, cur, prev>>
    /\ path' = [path EXCEPT !.freed = TRUE]
    /\ UNCHANGED scanStat
    /\ UNCHANGED obVars

\* line 391 (and 178): the call returns loc.Status; the caller takes the
\* results and clears its output area before it calls again
Return ==
    /\ pc = "return"
    /\ pc' = "idle"
    /\ args' = NullArgs
    /\ loc' = InitLoc
    /\ ReturnLength' = 0
    /\ Buffer' = <<>>
    /\ written' = 0
    /\ ctx0' = 0
    /\ snap' = <<>>
    /\ prev' = cur
    /\ cur' = NullSummary
    /\ UNCHANGED <<list, lock, PointerCount, pool, Context, mpc, scanOK,
                   scanLog>>
    /\ path' = NullPath
    /\ UNCHANGED scanStat
    /\ UNCHANGED obVars

(* ------------------------------ the caller ----------------------------- *)

\* between two calls the caller may store any value in *Context
CallerSetContext ==
    /\ pc = "idle"
    /\ \E c \in 0..MaxContext : c # Context /\ Context' = c
    /\ EndScan
    /\ prev' = [prev EXCEPT !.full = FALSE]
    /\ UNCHANGED <<list, lock, PointerCount, pool, pc, args, loc,
                   ReturnLength, Buffer, mpc, ctx0, snap, written, cur>>
    /\ scanStat' = NullScan
    /\ UNCHANGED path
    /\ UNCHANGED obVars

(* ---------------- insertion and removal of members --------------------- *)

\* the mutating context is at KeAcquireSpinLock whenever it does not hold
\* the lock; it gets the lock when the lock is free
MutatorLock ==
    /\ mpc = "waiting"
    /\ lock = "free"
    /\ lock' = "mutator"
    /\ mpc' = "locked"
    /\ UNCHANGED <<list, PointerCount, pool, pc, args, loc, Context,
                   ReturnLength, Buffer, ctx0, snap, written, scanOK,
                   scanLog, cur, prev>>
    /\ UNCHANGED <<path, scanStat>>
    /\ UNCHANGED obVars

Mutated ==
    /\ lock' = "free"
    /\ mpc' = "waiting"
    /\ EndScan
    /\ cur' = NullSummary
    /\ prev' = NullSummary
    /\ UNCHANGED <<PointerCount, pool, pc, args, loc, Context, ReturnLength,
                   Buffer, ctx0, snap, written>>
    /\ scanStat' = NullScan
    /\ UNCHANGED path
    /\ UNCHANGED obVars

\* InsertTailList, then the lock is released
InsertMember ==
    /\ mpc = "locked"
    /\ \E o \in Objects \ Range(list) : list' = Append(list, o)
    /\ Mutated

\* RemoveEntryList, then the lock is released
RemoveMember ==
    /\ mpc = "locked"
    /\ \E i \in 1..Len(list) :
         list' = SubSeq(list, 1, i - 1) \o SubSeq(list, i + 1, Len(list))
    /\ Mutated

(* --------------------------- specification ----------------------------- *)

Next ==
    \/ Probe
    \/ ObReferenceObjectByHandle
    \/ ExAllocatePool
    \/ KeAcquireSpinLock
    \/ ScanEntry
    \/ ScanDone
    \/ Compact
    \/ KeReleaseSpinLock
    \/ ObDereferenceObject
    \/ Deliver
    \/ ExFreePool
    \/ Return
    \/ CallerSetContext
    \/ MutatorLock
    \/ InsertMember
    \/ RemoveMember

Spec == Init /\ [][Next]_vars

\* the holder of the spin lock runs at raised IRQL until it releases the
\* lock (lines 207-357), and the lock is fair: a context that waits for it
\* and finds it free again and again gets it
FairSpec ==
    /\ Spec
    /\ WF_vars(ScanEntry) /\ WF_vars(ScanDone) /\ WF_vars(Compact)
    /\ WF_vars(KeReleaseSpinLock)
    /\ SF_vars(MutatorLock)

(* ------------------------ the object manager --------------------------- *)

\* the handles that are open on object d
HandlesOn(o, d) == { h \in Handles : o.handles[h] = d }

FreeHandles(o) == { h \in Handles : o.handles[h] = 0 }

\* the smallest free slot of the handle table
NewHandle(o) == CHOOSE h \in FreeHandles(o) : \A g \in FreeHandles(o) : h <= g

\* the next object ObCreateObject makes (0: none left)
NewObject(o) ==
    IF \E d \in Created : o.objs[d].state = "unused"
    THEN CHOOSE d \in Created :
            /\ o.objs[d].state = "unused"
            /\ \A e \in Created : o.objs[e].state = "unused" => d <= e
    ELSE 0

\* one reference less; an object without references that is not permanent
\* is torn down: its name is unlinked and its body freed
Dereferenced(o, d) ==
    LET o1 == [o EXCEPT !.objs[d].refs = @ - 1] IN
    IF o1.objs[d].refs = 0 /\ ~o1.objs[d].permanent
    THEN [o1 EXCEPT !.objs[d].state = "freed",
                    !.ns = [n \in Names |-> IF @[n] = d THEN 0 ELSE @[n]]]
    ELSE o1

\* the object is not permanent any more
Temporary(o, d) == [o EXCEPT !.objs[d].permanent = FALSE]

\* a handle on object d: one more reference
Opened(o, h, d) ==
    [o EXCEPT !.handles[h] = d, !.objs[d].refs = @ + 1]

(* ------------- NtCreateDirectoryObject, NtOpenDirectoryObject ---------- *)

\* the handle is stored whatever the status
WritesHandle_Always(status) == TRUE

\* lines 74 and 473: is *DirectoryHandle stored to
WritesHandle(status) == NT_SUCCESS(status)

\* the failed object is left as it was created
MarksTemporary_Never(status) == FALSE

\* line 467: is the object made temporary
MarksTemporary(status) == ~NT_SUCCESS(status)

\* lines 48-65 and 430-447: the locals behind
\* ProbeForWriteHandle(DirectoryHandle) in a call for this name
Probed(op, n, fault) ==
    [NullLc EXCEPT
       !.op = op, !.name = n, !.handles0 = ob.handles,
       !.Status = IF fault THEN STATUS_ACCESS_VIOLATION ELSE STATUS_SUCCESS,
       !.pc = IF fault THEN "return" ELSE op]

\* lines 430-447
CreateProbe ==
    /\ lc.pc = "idle"
    /\ \E n \in 0..MaxNames, fault \in BOOLEAN :
         lc' = Probed("create", n, fault)
    /\ UNCHANGED ob
    /\ UNCHANGED queryVars

\* lines 48-65
OpenProbe ==
    /\ lc.pc = "idle"
    /\ \E n \in 0..MaxNames, fault \in BOOLEAN :
         lc' = Probed("open", n, fault)
    /\ UNCHANGED ob
    /\ UNCHANGED queryVars

\* lines 449-457: a new object with one reference, the caller's; the
\* attributes say whether it is permanent
ObCreateObject ==
    /\ lc.pc = "create"
    /\ \/ /\ NewObject(ob) # 0
          /\ \E permanent \in BOOLEAN :
               ob' = [ob EXCEPT ![ "objs" ][NewObject(ob)] =
                        [state |-> "live", refs |-> 1,
                         permanent |-> permanent, failed |-> FALSE]]
          /\ lc' = [lc EXCEPT !.Directory = NewObject(ob), !.pc = "insert"]
       \/ /\ lc' = [lc EXCEPT !.Status = STATUS_INSUFFICIENT_RESOURCES,
                               !.pc = "return"]
          /\ UNCHANGED ob
    /\ UNCHANGED queryVars

\* lines 461-466: the object is linked under its name and a handle is
\* opened on it; the name may be taken, and the handle table may be full
\* behind the linking of the name
ObInsertObject ==
    /\ lc.pc = "insert"
    /\ LET d == lc.Directory
           linked == IF lc.name # 0
                     THEN [ob EXCEPT !.ns[lc.name] = d] ELSE ob
           fail(o, status) ==
               /\ ob' = [o EXCEPT !.objs[d].failed = TRUE]
               /\ lc' = [lc EXCEPT !.Status = status, !.obStatus = status,
                                   !.called = TRUE,
                                   !.pc = IF MarksTemporary(status)
                                          THEN "temporary" ELSE "deref"]
       IN  IF lc.name # 0 /\ ob.ns[lc.name] # 0
           THEN fail(ob, STATUS_OBJECT_NAME_COLLISION)
           ELSE \/ /\ FreeHandles(ob) # {}
                   /\ ob' = Opened(linked, NewHandle(ob), d)
                   /\ lc' = [lc EXCEPT
                               !.Status = STATUS_SUCCESS,
                               !.obStatus = STATUS_SUCCESS,
                               !.called = TRUE,
                               !.hDirectory = NewHandle(ob),
                               !.pc = IF MarksTemporary(STATUS_SUCCESS)
                                      THEN "temporary" ELSE "deref"]
                \/ fail(linked, STATUS_INSUFFICIENT_RESOURCES)
    /\ UNCHANGED queryVars

\* line 469
ObMakeTemporaryObject ==
    /\ lc.pc = "temporary"
    /\ ob' = Temporary(ob, lc.Directory)
    /\ lc' = [lc EXCEPT !.events = Append(@, "temporary"), !.pc = "deref"]
    /\ UNCHANGED queryVars

\* line 471: the caller's reference is dropped
CreateDereference ==
    /\ lc.pc = "deref"
    /\ ob' = Dereferenced(ob, lc.Directory)
    /\ lc' = [lc EXCEPT !.events = Append(@, "deref"),
                        !.pc = IF WritesHandle(lc.Status)
                               THEN "write" ELSE "return"]
    /\ UNCHANGED queryVars

\* lines 67-73: the name is resolved and a handle is opened on the object
ObOpenObjectByName ==
    /\ lc.pc = "open"
    /\ LET fail(status) ==
               /\ lc' = [lc EXCEPT !.Status = status, !.obStatus = status,
                                   !.called = TRUE,
                                   !.pc = IF WritesHandle(status)
                                          THEN "write" ELSE "return"]
               /\ UNCHANGED ob
       IN  IF lc.name = 0 \/ ob.ns[lc.name] = 0
           THEN fail(STATUS_OBJECT_NAME_NOT_FOUND)
           ELSE \/ /\ FreeHandles(ob) # {}
                   /\ ob' = Opened(ob, NewHandle(ob), ob.ns[lc.name])
                   /\ lc' = [lc EXCEPT
                               !.Status = STATUS_SUCCESS,
                               !.obStatus = STATUS_SUCCESS,
                               !.called = TRUE,
                               !.hDirectory = NewHandle(ob),
                               !.pc = IF WritesHandle(STATUS_SUCCESS)
                                      THEN "write" ELSE "return"]
                \/ fail(STATUS_INSUFFICIENT_RESOURCES)
    /\ UNCHANGED queryVars

\* lines 74-85 and 473-484: *DirectoryHandle = hDirectory, which may fault
WriteHandle ==
    /\ lc.pc = "write"
    /\ \/ lc' = [lc EXCEPT !.DirectoryHandle = lc.hDirectory,
                            !.wrote = TRUE, !.pc = "return"]
       \/ lc' = [lc EXCEPT !.Status = STATUS_ACCESS_VIOLATION,
                            !.pc = "return"]
    /\ UNCHANGED ob
    /\ UNCHANGED queryVars

\* lines 87 and 487: the call returns lc.Status
LifecycleReturn ==
    /\ lc.pc = "return"
    /\ lc' = NullLc
    /\ UNCHANGED ob
    /\ UNCHANGED queryVars

\* between two calls the caller closes one of its handles
NtClose ==
    /\ lc.pc = "idle"
    /\ \E h \in Handles :
         /\ ob.handles[h] # 0
         /\ ob' = Dereferenced([ob EXCEPT !.handles[h] = 0], ob.handles[h])
    /\ UNCHANGED lc
    /\ UNCHANGED queryVars

ObNext ==
    \/ CreateProbe
    \/ OpenProbe
    \/ ObCreateObject
    \/ ObInsertObject
    \/ ObMakeTemporaryObject
    \/ CreateDereference
    \/ ObOpenObjectByName
    \/ WriteHandle
    \/ LifecycleReturn
    \/ NtClose

ObSpec == Init /\ [][ObNext]_vars

(* ------------------------------ claims --------------------------------- *)

\* the call in flight is about to return a status of the enumeration: no
\* probe or delivery fault, the handle resolved, the scratch buffer allocated
Returned == pc = "return" /\ ~Failed(loc.Status)

IsPrefix(s, t) == Len(s) <= Len(t) /\ s = SubSeq(t, 1, Len(s))

\* the buffer of the call in flight holds every member of snap at once
HoldsAll == args.BufferLength >= R + SeqSum(snap)

FullScan ==
    /\ Returned /\ args.RestartScan /\ ~args.ReturnSingleEntry
    /\ list = snap /\ HoldsAll

C2_ScanIsPrefix ==
    /\ scanOK => IsPrefix(scanLog, list)
    /\ (Returned /\ scanOK /\ loc.Status = STATUS_NO_MORE_ENTRIES) =>
         scanLog = list

\* the second member is delivered by a later call of the scan than the first
C2_Witness ==
    /\ Returned /\ scanOK /\ ~args.RestartScan
    /\ Len(scanLog) >= 2 /\ Len(Buffer) = 1

\* C3 as stated: when the call returns 'buffer too small' the cursor equals
\* its value from before the call, whatever restartScan is, and no bytes
\* were written to the output buffer.
C3_TooSmallCursor_Original ==
    (Returned /\ loc.Status = STATUS_BUFFER_TOO_SMALL) =>
        /\ Context = ctx0
        /\ written = 0 /\ Buffer = <<>>

\* C3 as amended: when the call returns 'buffer too small' the cursor equals
\* the index the scan started from (the value from before the call when
\* restartScan = false, 0 when restartScan = true), and no bytes were
\* written to the output buffer.
C3_TooSmallCursor ==
    (Returned /\ loc.Status = STATUS_BUFFER_TOO_SMALL) =>
        /\ Context = Start
        /\ written = 0 /\ Buffer = <<>>

\* 'buffer too small' with restartScan = true and a cursor that was not 0
C3_Witness ==
    /\ Returned /\ loc.Status = STATUS_BUFFER_TOO_SMALL
    /\ args.RestartScan /\ ctx0 # 0

\* C4: the size a single entry query reports with 'buffer too small' for
\* entry e is R + entrySize(e); on the unmutated directory a single entry
\* query at the same position succeeds and delivers e with a buffer of at
\* least that size and returns 'buffer too small' with one byte less.
C4_ExactRetrySize ==
    /\ (/\ Returned /\ args.ReturnSingleEntry /\ args.HasReturnLength
        /\ loc.Status = STATUS_BUFFER_TOO_SMALL) =>
         /\ Start < Len(snap)
         /\ ReturnLength = R + EntrySize(snap[Start + 1])
    /\ (/\ Returned /\ args.ReturnSingleEntry
        /\ prev.small /\ Start = prev.start) =>
         /\ args.BufferLength >= prev.L =>
              /\ loc.Status = STATUS_SUCCESS
              /\ Start < Len(snap)
              /\ Buffer = <<snap[Start + 1]>>
         /\ args.BufferLength = prev.L - 1 =>
              loc.Status = STATUS_BUFFER_TOO_SMALL

\* the retry with exactly the reported size, behind the first member
C4_Witness ==
    /\ Returned /\ args.ReturnSingleEntry
    /\ prev.small /\ Start = prev.start /\ Start = 1
    /\ args.BufferLength = prev.L
    /\ Len(Buffer) = 1

\* C5: a single entry query delivers at most one record, and when it
\* delivers one the cursor is the index the scan started from plus 1.
C5_SingleEntry ==
    (Returned /\ args.ReturnSingleEntry) =>
        /\ Len(Buffer) <= 1
        /\ Len(Buffer) = 1 => Context = Start + 1

\* a single entry query delivers the second of two members
C5_Witness ==
    /\ Returned /\ args.ReturnSingleEntry /\ ~args.RestartScan
    /\ ctx0 = 1 /\ Len(snap) = 2 /\ Len(Buffer) = 1

C7_ReferenceReleased == pc = "idle" => PointerCount = BaseRefs

\* C8: the querying context holds the lock only between the acquisition and
\* the release: not while it probes or reads the cursor, allocates, copies
\* into the output buffer, writes cursor or returnLength, or frees.
C8_LockedSection ==
    lock = "query" <=> pc \in {"scan", "compact", "release"}

\* records are staged and about to be compacted, the lock held
C8_Witness ==
    lock = "query" /\ pc = "compact" /\ loc.nDirectories > 0

\* C9: with members inserted and removed concurrently under the lock, the
\* records one call delivers are a contiguous run, from the scan's start
\* index, of the list as it stood when the call took the lock; the list
\* does not change while the call holds the lock.
C9_OneVersion ==
    /\ (Returned /\ Buffer # <<>>) =>
         /\ Start + Len(Buffer) <= Len(snap)
         /\ Buffer = SubSeq(snap, Start + 1, Start + Len(Buffer))
    /\ pc \in {"scan", "compact", "release"} => list = snap

\* records were delivered and the list has changed since the scan
C9_Witness ==
    /\ Returned /\ Len(Buffer) >= 1 /\ list # snap /\ list # <<>>

\* the numbers of entries from the start index that fit in the buffer
FitCounts ==
    { k \in 0..(Len(snap) - Start) :
        R + SeqSum(SubSeq(snap, Start + 1, Start + k))
          <= args.BufferLength }

SomeNotAllFit ==
    /\ Start < Len(snap)
    /\ \E k \in FitCounts : k >= 1
    /\ (Len(snap) - Start) \notin FitCounts

\* C10: in multi entry mode, when at least one but not all entries from the
\* start index fit, the call returns 'more entries', delivers the longest
\* run from the start index whose accumulated size fits, and sets the
\* cursor to the start index plus the number of records delivered.
C10_PartialBatch ==
    (Returned /\ ~args.ReturnSingleEntry /\ SomeNotAllFit) =>
        LET k == CHOOSE n \in FitCounts : \A m \in FitCounts : m <= n
        IN  /\ loc.Status = STATUS_MORE_ENTRIES
            /\ Buffer = SubSeq(snap, Start + 1, Start + k)
            /\ Context = Start + k

\* one of two members fits, from a cursor that was not where the scan starts
C10_Witness ==
    /\ Returned /\ ~args.ReturnSingleEntry /\ SomeNotAllFit
    /\ Len(Buffer) = 1 /\ Context # ctx0

\* C11 as stated: when the call returns 'more entries', at least one record
\* was delivered and the cursor is strictly greater than the index the scan
\* started from.
C11_MoreEntriesProgress_Original ==
    (Returned /\ loc.Status = STATUS_MORE_ENTRIES) =>
        /\ Len(Buffer) >= 1 /\ written > 0
        /\ Context > Start

\* C11 as amended: when the call returns 'more entries', either at least
\* one record was delivered and the cursor is strictly greater than the
\* start index, or the entry at the start index does not fit the buffer
\* (bufferLength < R + entrySize), no record was delivered and the cursor
\* equals the start index.
C11_MoreEntriesProgress ==
    (Returned /\ loc.Status = STATUS_MORE_ENTRIES) =>
        /\ Start < Len(snap)
        /\ IF args.BufferLength >= R + EntrySize(snap[Start + 1])
           THEN /\ Len(Buffer) >= 1 /\ written > 0
                /\ Context > Start
           ELSE /\ Buffer = <<>> /\ written = 0
                /\ Context = Start

\* 'more entries' without a record, behind the first member
C11_Witness ==
    /\ Returned /\ loc.Status = STATUS_MORE_ENTRIES
    /\ Buffer = <<>> /\ ~args.RestartScan /\ ctx0 = 1

\* the entry at the start index of the call in flight does not fit
FirstDoesNotFit ==
    /\ Start < Len(snap)
    /\ args.BufferLength < R + EntrySize(snap[Start + 1])

\* C12 as stated: 'buffer too small' is returned only in single entry mode;
\* a multi entry query whose first unconsumed entry does not fit returns
\* 'more entries' with no record and the cursor equal to its value from
\* before the call.
C12_MultiDoesNotFit_Original ==
    /\ (Returned /\ loc.Status = STATUS_BUFFER_TOO_SMALL) =>
         args.ReturnSingleEntry
    /\ (Returned /\ ~args.ReturnSingleEntry /\ FirstDoesNotFit) =>
         /\ loc.Status = STATUS_MORE_ENTRIES
         /\ Buffer = <<>> /\ written = 0
         /\ Context = ctx0

\* C12 as amended: the same, but the cursor equals the index the scan
\* started from (its value from before the call when restartScan = false,
\* 0 when restartScan = true).
C12_MultiDoesNotFit ==
    /\ (Returned /\ loc.Status = STATUS_BUFFER_TOO_SMALL) =>
         args.ReturnSingleEntry
    /\ (Returned /\ ~args.ReturnSingleEntry /\ FirstDoesNotFit) =>
         /\ loc.Status = STATUS_MORE_ENTRIES
         /\ Buffer = <<>> /\ written = 0
         /\ Context = Start

\* a multi entry query with restartScan = true, a cursor that was not 0 and
\* a first member that does not fit
C12_Witness ==
    /\ Returned /\ ~args.ReturnSingleEntry /\ FirstDoesNotFit
    /\ args.RestartScan /\ ctx0 # 0

\* C13: a call whose probe faults returns the fault's status and does
\* nothing else: no handle resolved, no reference taken, no scratch buffer,
\* no lock, and cursor, output buffer and returnLength not written.
C13_ProbeFault ==
    path.fault = "probe" =>
        /\ pc = "return"
        /\ loc.Status = STATUS_ACCESS_VIOLATION
        /\ ~path.referenced /\ PointerCount = path.refs0
        /\ ~path.allocated /\ pool = 0
        /\ path.acquired = 0 /\ lock # "query"
        /\ Context = ctx0 /\ ReturnLength = 0
        /\ Buffer = <<>> /\ written = 0

\* the probe of a call faults while the cursor holds a value
C13_Witness ==
    /\ path.fault = "probe" /\ pc = "return" /\ ctx0 # 0
    /\ ~args.RestartScan /\ args.HasReturnLength

\* C14: when the scratch buffer cannot be allocated the call returns
\* 'insufficient resources', never takes the lock and writes neither the
\* output buffer nor the cursor nor returnLength.
C14_NoPool ==
    /\ path.nomem =>
         /\ pc = "return"
         /\ loc.Status = STATUS_INSUFFICIENT_RESOURCES
         /\ path.acquired = 0 /\ lock # "query"
         /\ Context = ctx0 /\ ReturnLength = 0
         /\ Buffer = <<>> /\ written = 0
    /\ (pc = "return" /\ loc.Status = STATUS_INSUFFICIENT_RESOURCES) =>
         path.nomem

\* the allocation fails in a single entry call that would write the cursor
C14_Witness ==
    /\ path.nomem /\ pc = "return" /\ args.ReturnSingleEntry
    /\ args.RestartScan /\ ctx0 # 0 /\ args.HasReturnLength

\* C17: when the call returns 'success' or 'more entries' and returnLength
\* was supplied, returnLength holds the number of bytes the call copied
\* into the output buffer.
C17_ReturnLengthIsCopied ==
    (Returned /\ NT_SUCCESS(loc.Status) /\ args.HasReturnLength) =>
        ReturnLength = written

\* the lengths of the strings staged for these records, in heap order
RECURSIVE StagedStrings(_)
StagedStrings(dirInfo) ==
    IF dirInfo = <<>> THEN <<>>
    ELSE LET o == Head(dirInfo) IN
         (IF NameLength(o) > 0 THEN <<NameLength(o)>> ELSE <<>>)
         \o <<TypeLength(o)>> \o StagedStrings(Tail(dirInfo))

RECURSIVE TerminatedSum(_)
TerminatedSum(lengths) ==
    IF lengths = <<>> THEN 0
    ELSE Head(lengths) + 2 + TerminatedSum(Tail(lengths))

\* a string of this length at this offset lies behind the record array and
\* the terminator record, and ends with its terminator inside CopyBytes
InHeap(offset, length, collected) ==
    /\ offset >= (collected + 1) * R
    /\ offset + length + 2 <= loc.CopyBytes

\* C19: all writes into the scratch buffer stay within bufferLength bytes,
\* the strings lie behind the record array, copyBytes <= bufferLength; when
\* at least one record was collected, copyBytes = runningRequired =
\* (collected + 1) * R + the sum of (string bytes + 2) over the staged
\* strings, and every delivered descriptor points inside the first
\* copyBytes bytes of the output buffer.
C19_ScratchLayout ==
    /\ path.high <= args.BufferLength
    /\ loc.CopyBytes <= args.BufferLength
    /\ (pc \in {"release", "deref", "deliver", "free", "return"}
        /\ loc.DirInfo # <<>>) =>
         LET collected == Len(loc.DirInfo) IN
         /\ Len(path.desc) = collected
         /\ loc.CopyBytes = loc.RequiredSize
         /\ loc.RequiredSize =
                (collected + 1) * R
                + TerminatedSum(StagedStrings(loc.DirInfo))
         /\ path.high = loc.CopyBytes
         /\ \A i \in 1..collected :
              LET d == path.desc[i] IN
              /\ d.NameLength = NameLength(loc.DirInfo[i])
              /\ d.TypeLength = TypeLength(loc.DirInfo[i])
              /\ InHeap(d.TypeBuffer, d.TypeLength, collected)
              /\ IF d.NameLength > 0
                 THEN /\ InHeap(d.NameBuffer, d.NameLength, collected)
                      /\ d.NameBuffer + d.NameLength + 2 <= d.TypeBuffer
                 ELSE d.NameBuffer = -1
    /\ Buffer # <<>> =>
         Buffer = loc.DirInfo /\ written = loc.CopyBytes

\* two records, one of them without a name, fill the buffer to its last byte
C19_Witness ==
    /\ pc = "return" /\ Len(Buffer) = 2
    /\ \E i \in 1..2 : path.desc[i].NameBuffer = -1
    /\ written = args.BufferLength /\ path.high = args.BufferLength

\* C20: on a directory that is not mutated, a scan (restartScan = true,
\* then restartScan = false with the cursor passed back) whose buffers hold
\* every member alone (bufferLength >= R + entrySize) has received 'no more
\* entries' once it has made n + 1 calls, n the member count, every call
\* before that having delivered a record; and a scan whose buffers never
\* hold some member delivers no record from that member on and never
\* receives 'no more entries'.
C20_ScanTerminates ==
    scanOK =>
        /\ scanStat.allFit =>
             /\ scanStat.calls >= Len(list) + 1 => scanStat.ended
             /\ ~scanStat.ended => Len(scanLog) >= scanStat.calls
             /\ (pc = "return" /\ loc.Status = STATUS_NO_MORE_ENTRIES) =>
                  scanLog = list
        /\ \A i \in scanStat.noFit :
             /\ Len(scanLog) < i
             /\ ~scanStat.ended
             /\ pc = "return" => loc.Status # STATUS_NO_MORE_ENTRIES

\* the third call of a scan of two members, one record per call, is the
\* first to receive 'no more entries'
C20_Witness ==
    /\ scanOK /\ scanStat.allFit /\ pc = "return"
    /\ Len(list) = 2 /\ scanStat.calls = 3
    /\ loc.Status = STATUS_NO_MORE_ENTRIES
    /\ args.ReturnSingleEntry /\ ~args.RestartScan

\* a scan is stuck in front of its second member, which never fits
C20_StuckWitness ==
    /\ scanOK /\ 2 \in scanStat.noFit /\ pc = "return"
    /\ Len(scanLog) = 1 /\ ~args.RestartScan /\ Buffer = <<>>

\* what the call in flight has done with the lock and the scratch buffer
C18_Safe ==
    /\ path.released <= path.acquired /\ path.acquired <= 1
    /\ lock = "query" <=> path.acquired = path.released + 1
    /\ pc = "return" =>
         /\ path.released = path.acquired
         /\ path.allocated => path.freed
         /\ pool = 0
    /\ path.freed => path.allocated
    /\ pc = "deliver" => (lock # "query" /\ path.released = 1)
    /\ path.fault = "deliver" =>
         /\ lock # "query" /\ path.released = 1
         /\ pc \in {"free", "return"}
         /\ pc = "return" => path.freed

\* C18: a call that acquires the directory's lock releases it exactly once
\* before it returns; a fault in the delivery happens only when the call
\* does not hold the lock; the scratch buffer is freed on every path that
\* allocated it; and, the lock being fair, a context that waits for the
\* lock eventually acquires it.
C18_LockReleased ==
    /\ []C18_Safe
    /\ (mpc = "waiting") ~> (mpc = "locked")

\* the delivery of a call faults while another context waits for the lock
C18_Witness ==
    /\ path.fault = "deliver" /\ pc = "free"
    /\ path.acquired = 1 /\ path.released = 1
    /\ mpc = "waiting"

\* a later open of some name, or a handle, leads to object d
Reachable(d) == (\E n \in Names : ob.ns[n] = d) \/ HandlesOn(ob, d) # {}

\* C15: once NtCreateDirectoryObject has created the object and attempted
\* the insertion, it drops exactly one reference, whether the insertion
\* succeeded or failed; when it failed the object is made temporary before
\* that reference is dropped, the status of the insertion is returned as it
\* came, no handle is written to the caller, and the failed object is not
\* reachable by a later open.
C15_CreateReleases ==
    /\ (lc.op = "create" /\ lc.called /\ lc.pc = "return") =>
         IF NT_SUCCESS(lc.obStatus)
         THEN /\ lc.events = <<"deref">>
              /\ ob.objs[lc.Directory].refs = 1
              /\ ob.handles[lc.hDirectory] = lc.Directory
         ELSE /\ lc.events = <<"temporary", "deref">>
              /\ lc.Status = lc.obStatus
              /\ ~lc.wrote /\ lc.DirectoryHandle = 0
              /\ ob.handles = lc.handles0
              /\ ob.objs[lc.Directory].refs = 0
              /\ ~Reachable(lc.Directory)
    /\ \A d \in Created :
         (/\ ob.objs[d].failed
          /\ ~(lc.Directory = d /\ lc.pc \in {"temporary", "deref"})) =>
             /\ ~Reachable(d)
             /\ ob.objs[d].state = "freed"

\* the creation under a name that is taken has failed; the name still leads
\* to the object that had it
C15_Witness ==
    /\ lc.op = "create" /\ lc.pc = "return"
    /\ lc.Status = STATUS_OBJECT_NAME_COLLISION
    /\ ob.objs[lc.Directory].state = "freed"
    /\ ob.ns[lc.name] \notin {0, lc.Directory}

\* C16: in NtOpenDirectoryObject a failure of the name resolution is
\* returned as it came and no handle is written to the caller; when the
\* resolution succeeds and the store of the handle faults, the call returns
\* the fault's status and the handle the resolution made stays open.
C16_OpenFailures ==
    (lc.op = "open" /\ lc.called /\ lc.pc = "return") =>
        IF ~NT_SUCCESS(lc.obStatus)
        THEN /\ lc.Status = lc.obStatus
             /\ ~lc.wrote /\ lc.DirectoryHandle = 0
             /\ ob.handles = lc.handles0
        ELSE /\ lc.handles0[lc.hDirectory] = 0
             /\ ob.handles[lc.hDirectory] = ob.ns[lc.name]
             /\ ob.objs[ob.ns[lc.name]].state = "live"
             /\ ob.objs[ob.ns[lc.name]].refs >= 1
             /\ IF lc.wrote
                THEN /\ lc.Status = STATUS_SUCCESS
                     /\ lc.DirectoryHandle = lc.hDirectory
                ELSE /\ lc.Status = STATUS_ACCESS_VIOLATION
                     /\ lc.DirectoryHandle = 0

\* the store of the handle of a successful open has faulted
C16_Witness ==
    /\ lc.op = "open" /\ lc.called /\ lc.pc = "return"
    /\ NT_SUCCESS(lc.obStatus) /\ lc.Status = STATUS_ACCESS_VIOLATION
    /\ ob.handles[lc.hDirectory] # 0

====
